---- MODULE Spec2Model ----
(***************************************************************************)
(* The connection and command-exchange engine of godot-mcp-server.py:      *)
(* GodotConnection (connect with retry, disconnect, send_command, the      *)
(* drain of pending messages), ensure_godot_connection, and the two        *)
(* dispatchers _execute_command and check_connection.                      *)
(*                                                                         *)
(* Tool invocations are asyncio coroutines on one event loop: a coroutine  *)
(* runs without interruption from one suspension point (an await that      *)
(* really waits: websockets.connect, asyncio.sleep, websocket.recv) to the *)
(* next, and other coroutines run in between.  Each action below is one    *)
(* such uninterrupted stretch of one invocation, or one step of the host.  *)
(***************************************************************************)
EXTENDS Integers, Sequences, FiniteSets, TLC

\* ------------------------------------------------------------- bounds
NumTasks == 2      \* tool invocations the frontend may have in progress at once
MaxOps == 2        \* tool invocations over a run
MaxSocks == 2      \* connections the host accepts over a run
MaxPush == 1       \* unsolicited messages the host pushes over a run
MaxClose == 1      \* connections the host drops over a run
MaxPending == 3    \* messages pending when a drain is looked at alone

\* ------------------------------------------------- program constants
max_retries == 3   \* Config.max_retries, GODOT_MAX_RETRIES default
godot_port == 9080 \* Config.godot_port, GODOT_PORT default
godot_host == "localhost"

Tasks == 1..NumTasks
Socks == 1..MaxSocks
None == 0          \* websocket = None; no coroutine waiting in recv()

\* The tools modelled: one routed through _execute_command (all of them share
\* that helper), and check_connection, which has its own dispatch code.
Ops == {"get_scene_tree", "check_connection"}

VARIABLES
    connected,     \* GodotConnection.connected
    websocket,     \* GodotConnection.websocket: None or the socket stored last
    sock,          \* socket -> "free" | "open" | "closed" (by the peer or by disconnect)
    inbox,         \* socket -> frames received and not yet returned by recv()
    hostPending,   \* socket -> command ids the host has read and not answered
    waiter,        \* socket -> the task suspended in recv() on it, or None
    pc,            \* task -> where its invocation is suspended
    op,            \* task -> the tool it runs
    params,        \* task -> the arguments it was invoked with
    cmd,           \* task -> id of the command of its invocation
    command,       \* task -> the params of the command frame its tool built
    attempt,       \* task -> connect()'s loop variable
    calls,         \* task -> websockets.connect calls made by its connect()
    delays,        \* task -> asyncio.sleep calls made by its connect()
    lastFail,      \* task -> how the attempt before the running delay failed, or "none"
    conns,         \* task -> connect() sequences run by its invocation
    connRet,       \* task -> what its connect() returned: "none", "true", "false"
    accepted,      \* task -> the host has accepted a connection since its invocation began
    entryConn,     \* task -> connected, as read when the invocation started
    drained,       \* task -> frames its drain has discarded
    queued,        \* task -> frames in the receive buffer when send_command was called
    sends,         \* task -> websocket.send calls its invocation has made
    sent,          \* task -> command frames its invocation has written
    drains,        \* task -> runs of _drain_welcome_messages that have returned
    recvs,         \* task -> recv() calls its send_command has made for the response
    sentOn,        \* task -> the socket its frame was written to, or None
    got,           \* task -> the frame recv() returned to its send_command
    result,        \* task -> the value its last invocation returned
    detected,      \* sockets on which an invocation has met a transport failure
    nOps, nPush, nClose

vars == <<connected, websocket, sock, inbox, hostPending, waiter, pc, op, params,
          cmd, command, attempt, calls, delays, lastFail, conns, connRet, accepted,
          entryConn, drained, queued, sends, sent, drains, recvs, sentOn, got,
          result, detected, nOps, nPush, nClose>>


\* ------------------------------------------------------------ values

\* JSON values.  A mapping is a function from its keys to JSON values; a list
\* is kept by its length; "absent" stands for a key that is not there.
EmptyMap == [k \in {} |-> 0]
JAbsent == [tag |-> "absent", s |-> "", n |-> 0, map |-> EmptyMap]
JNull == [tag |-> "null", s |-> "", n |-> 0, map |-> EmptyMap]
JStr(x) == [tag |-> "str", s |-> x, n |-> 0, map |-> EmptyMap]
JInt(k) == [tag |-> "int", s |-> "", n |-> k, map |-> EmptyMap]
JList(k) == [tag |-> "list", s |-> "", n |-> k, map |-> EmptyMap]
JDict(m) == [tag |-> "dict", s |-> "", n |-> 0, map |-> m]
JBool(b) == [tag |-> "bool", s |-> "", n |-> IF b THEN 1 ELSE 0, map |-> EmptyMap]

\* bool(v): the truth value Python gives a JSON value.
truthy(v) ==
    CASE v.tag = "bool" -> v.n = 1
      [] v.tag = "int"  -> v.n # 0
      [] v.tag = "list" -> v.n # 0
      [] v.tag = "str"  -> v.s # ""
      [] v.tag = "dict" -> DOMAIN v.map # {}
      [] OTHER          -> FALSE

\* The mapping holding the keys of f whose value is there.
MkDict(f) ==
    JDict([k \in {x \in DOMAIN f : f[x].tag # "absent"} |-> f[k]])

\* Frames the host writes.  A reply answers the command whose id it carries.
NoFrame == [kind |-> "none", cmd |-> 0, status |-> "absent", error |-> "absent", data |-> JAbsent]
Welcome == [kind |-> "welcome", cmd |-> 0, status |-> "absent", error |-> "absent", data |-> JAbsent]

\* A pending message that is JSON but not an object: the text 42.
Scalar == [kind |-> "scalar", cmd |-> 0, status |-> "absent", error |-> "absent", data |-> JInt(42)]

\* A pending message that is an object of another type than "welcome".
Notice == [kind |-> "notice", cmd |-> 0, status |-> "absent", error |-> "absent", data |-> JAbsent]

NoScene == "No scene is currently open"

\* The data of the host's success reply.
SceneData ==
    JDict([root_node |-> JStr("DemoScene"), scene_path |-> JStr("res://demo_scene.tscn")])

\* The text of a frame that is not JSON; such a frame keeps it in data.
RawText == "<html>502 Bad Gateway</html>"

ReplyKinds == {"success", "error", "noscene", "garbage"}

Reply(kind, c) ==
    CASE kind = "success" -> [kind |-> "reply", cmd |-> c, status |-> "success", error |-> "absent", data |-> SceneData]
      [] kind = "error"   -> [kind |-> "reply", cmd |-> c, status |-> "error", error |-> "Node not found", data |-> JAbsent]
      [] kind = "noscene" -> [kind |-> "reply", cmd |-> c, status |-> "error", error |-> NoScene, data |-> JAbsent]
      [] OTHER            -> [kind |-> "garbage", cmd |-> c, status |-> "absent", error |-> "absent", data |-> JStr(RawText)]

\* Exceptions, with the text str(e) gives.
ExcConnectFailed == [exc |-> "ConnectionError", text |-> "Failed to connect to Godot. Make sure Godot is running with the MCP addon enabled."]
ExcNotConnected == [exc |-> "ConnectionError", text |-> "Not connected to Godot"]
ExcClosed == [exc |-> "ConnectionClosed", text |-> "no close frame received or sent"]
ExcConcurrent == [exc |-> "RuntimeError", text |-> "cannot call recv while another coroutine is already waiting for the next message"]
ExcJSON == [exc |-> "JSONDecodeError", text |-> "Expecting value: line 1 column 1 (char 0)"]
ExcAttribute == [exc |-> "AttributeError", text |-> "object has no attribute 'get'"]
ExcType == [exc |-> "TypeError", text |-> "object has no len()"]
ExcRefused == [exc |-> "OSError", text |-> "Connect call failed"]
NoExc == [exc |-> "none", text |-> ""]

\* What steps 1-3 of a dispatch (ensure, build, send_command) end in: an
\* exception raised, or the parsed response.
Raised(e) == [raised |-> TRUE, exc |-> e, resp |-> NoFrame]
Response(f) == [raised |-> FALSE, exc |-> NoExc, resp |-> f]

\* A parser whose exception quotes the text it was given.
json_loads_quoting(f) ==
    IF f.kind = "garbage"
    THEN Raised([exc |-> "JSONDecodeError", text |-> f.data.s])
    ELSE Response(f)

\* json.loads(response) at the end of send_command.
json_loads(f) ==
    IF f.kind = "garbage" THEN Raised(ExcJSON) ELSE Response(f)

\* The value an invocation returns: json.dumps of an envelope.  "fault" stands
\* for an exception leaving the tool function instead of a value.
NoResult == [status |-> "none", data |-> JAbsent, message |-> <<>>]
Success(d) == [status |-> "success", data |-> d, message |-> <<>>]
Error(m) == [status |-> "error", data |-> JAbsent, message |-> m]
Fault(e) == [status |-> "fault", data |-> JAbsent, message |-> <<e.exc, e.text>>]

\* A narrower except clause: except ConnectionError.
IsException_narrow(e) ==
    e.exc = "ConnectionError"

\* except Exception: every exception met here derives from Exception.
IsException(e) ==
    e.exc \in {"ConnectionError", "ConnectionClosed", "RuntimeError",
               "JSONDecodeError", "AttributeError", "TypeError", "OSError"}

\* The arguments of an invocation that the returned value depends on.
NoParams == [node_type |-> ""]

\* The params of a command frame, as far as a tool computes them; none built.
NoCommand == [track_type |-> 0, track_path |-> <<>>]

\* A prefix that leaves the node type out.
create_node_prefix_fixed(p) == "Failed to create node"

\* f"Failed to create {node_type} node"
create_node_prefix(p) ==
    CASE p.node_type = "InvalidType" -> "Failed to create InvalidType node"
      [] p.node_type = "Sprite2D"    -> "Failed to create Sprite2D node"
      [] OTHER                       -> "Failed to create  node"

\* The scripts the script tools are called with.
valid_script == "extends Node2D\n\nfunc _ready():\n    pass"
invalid_script == "invalid syntax here"

\* f"... Successfully updated script content on {node_path} ({len(content)} characters)"
updated_message(p) ==
    CASE p.content = valid_script -> "Successfully updated script content on Player (39 characters)"
      [] OTHER                    -> "Successfully updated script content on Player (19 characters)"

\* f"... Script validation successful ({len(content)} characters)"
validation_message(p) ==
    CASE p.content = valid_script -> "Script validation successful (39 characters)"
      [] OTHER                    -> "Script validation successful (19 characters)"

\* The error_prefix argument each tool passes to _execute_command.
error_prefix(o, p) ==
    CASE o = "get_scene_tree"     -> "Failed to get scene tree"
      [] o = "create_node"        -> create_node_prefix(p)
      [] o = "set_script_content" -> "Failed to update script content on Player"
      [] o = "validate_script"    -> "Failed to validate script"
      [] OTHER                    -> "Connection check failed"

\* d.get(key, default) on a mapping d.
dict_get(d, key, default) ==
    IF key \in DOMAIN d.map THEN d.map[key] ELSE default

\* The data of the response dropped.
get_data_dropped(f) == JDict(EmptyMap)

\* response["data"], without a default.
get_data_required(f) == f.data

\* response.get("data", {})
get_data(f) == IF f.data.tag = "absent" THEN JDict(EmptyMap) ELSE f.data

\* response.get('error'), without a default: None is formatted as "None".
get_error_nodefault(f) == IF f.error = "absent" THEN "None" ELSE f.error

\* response.get('error', 'Unknown error')
get_error(f) == IF f.error = "absent" THEN "Unknown error" ELSE f.error

\* What evaluating an expression ends in: an exception or a value.
Throw(e) == [raised |-> TRUE, exc |-> e, val |-> JAbsent]
Value(v) == [raised |-> FALSE, exc |-> NoExc, val |-> v]

\* f"... Created {node_type} node '{node_name_created}'{shape_info} at path: {node_path}"
created_message(p, name, path) ==
    JDict([message |-> JStr("Created node"), node_type |-> JStr(p.node_type),
           node_name |-> name, node_path |-> path])

\* validate_script's success_formatter: the message when data.get("valid",
\* False) is true, else the host's error under "error".
validate_formatter(p, d) ==
    IF d.tag # "dict"
    THEN Throw(ExcAttribute)
    ELSE IF truthy(dict_get(d, "valid", JBool(FALSE)))
    THEN Value(JDict([valid |-> JBool(TRUE), message |-> JStr(validation_message(p))]))
    ELSE Value(JDict([valid |-> JBool(FALSE),
                      error |-> dict_get(d, "error", JStr("Unknown validation error"))]))

\* The success_formatter each tool passes: get_scene_tree's is
\* lambda data: data; create_node's reads node_path and node_name with
\* data.get and builds a message; set_script_content's builds its message
\* without reading data.
success_formatter(o, p, d) ==
    CASE o = "create_node" ->
            IF d.tag # "dict"
            THEN Throw(ExcAttribute)
            ELSE Value(created_message(p, dict_get(d, "node_name", JStr(p.node_type)),
                                          dict_get(d, "node_path", JStr("Unknown"))))
      [] o = "set_script_content" -> Value(JDict([message |-> JStr(updated_message(p))]))
      [] o = "validate_script" -> validate_formatter(p, d)
      [] OTHER -> Value(d)

\* The except clause of a dispatcher: the error envelope of an exception.
\* A message is the sequence of its parts; "[x] " is the cross mark and
\* "[!] " the warning sign the messages begin with.
except_Exception(prefix, e) ==
    IF IsException(e)
    THEN Error(<<"[x] ", prefix, ": ", e.text>>)
    ELSE Fault(e)

\* The error envelope without the special case.
error_envelope_generic(prefix, error_msg) ==
    Error(<<"[x] ", prefix, ": ", error_msg>>)

\* The error envelope for a response whose status is not "success".
error_envelope(prefix, error_msg) ==
    IF error_msg = NoScene
    THEN Error(<<"[x] ", error_msg, ". Please open a scene in Godot editor first, then try again.">>)
    ELSE Error(<<"[x] ", prefix, ": ", error_msg>>)

\* _execute_command after steps 1-3.
_execute_command(o, p, out) ==
    IF out.raised
    THEN except_Exception(error_prefix(o, p), out.exc)
    ELSE IF out.resp.kind = "scalar"
    THEN except_Exception(error_prefix(o, p), ExcAttribute)
    ELSE IF out.resp.status = "success"
         THEN LET data == success_formatter(o, p, get_data(out.resp))
              IN IF data.raised
                 THEN except_Exception(error_prefix(o, p), data.exc)
                 ELSE Success(data.val)
         ELSE error_envelope(error_prefix(o, p), get_error(out.resp))

\* len(x): defined on lists and mappings (no string is drawn for error_log).
len(x) ==
    CASE x.tag = "list" -> Value(JInt(x.n))
      [] x.tag = "dict" -> Value(JInt(Cardinality(DOMAIN x.map)))
      [] OTHER          -> Throw(ExcType)

\* x.get(key, default), where x may be anything the host sent.
get(x, key, default) ==
    IF x.tag = "dict" THEN Value(dict_get(x, key, default)) ELSE Throw(ExcAttribute)

\* The status_report of check_connection, its entries evaluated in order;
\* the first exception ends the evaluation.
status_report(debug_data) ==
    LET server_info == get(debug_data, "server_status", JDict(EmptyMap))
        version_info == get(debug_data, "godot_version", JDict(EmptyMap))
        godot_version == get(version_info.val, "string", JStr("Unknown"))
        active_clients == get(server_info.val, "client_count", JInt(0))
        server_uptime == get(debug_data, "timestamp", JStr("Unknown"))
        error_log == get(debug_data, "error_log", JList(0))
        error_log_size == len(error_log.val)
    IN IF server_info.raised THEN server_info
       ELSE IF godot_version.raised THEN godot_version
       ELSE IF active_clients.raised THEN active_clients
       ELSE IF error_log_size.raised THEN error_log_size
       ELSE Value(JDict([status |-> JStr("Healthy"),
                         websocket_host |-> JStr(godot_host),
                         websocket_port |-> JInt(godot_port),
                         godot_version |-> godot_version.val,
                         active_clients |-> active_clients.val,
                         server_uptime |-> server_uptime.val,
                         error_log_size |-> error_log_size.val]))

\* check_connection after steps 1-3.
check_connection(out) ==
    IF out.raised
    THEN except_Exception("Connection check failed", out.exc)
    ELSE IF out.resp.kind = "scalar"
    THEN except_Exception("Connection check failed", ExcAttribute)
    ELSE IF out.resp.status = "success"
         THEN LET report == status_report(get_data(out.resp))
              IN IF report.raised
                 THEN except_Exception("Connection check failed", report.exc)
                 ELSE Success(report.val)
         ELSE Error(<<"[!] ", "Connected but communication failed", ": ", get_error(out.resp)>>)

\* What a direct caller of send_command gets: the exception, or the parsed
\* response.
Returned(out) ==
    IF out.raised
    THEN Fault(out.exc)
    ELSE [status |-> "response", data |-> out.resp.data, message |-> <<>>]

\* ------------------------------------------------- one stretch of code

\* The state one uninterrupted stretch of task t's code reads and writes.
M(t) ==
    [conn |-> connected, ws |-> websocket, sock |-> sock, inbox |-> inbox,
     hostPending |-> hostPending, waiter |-> waiter, detected |-> detected,
     pc |-> pc[t], o |-> op[t], p |-> params[t], c |-> cmd[t],
     drained |-> drained[t], queued |-> queued[t], sends |-> sends[t],
     sent |-> sent[t],
     drains |-> drains[t],
     recvs |-> recvs[t], sentOn |-> sentOn[t], got |-> got[t],
     result |-> result[t]]

\* The state after the stretch.
Commit(t, m) ==
    /\ connected' = m.conn
    /\ websocket' = m.ws
    /\ sock' = m.sock
    /\ inbox' = m.inbox
    /\ hostPending' = m.hostPending
    /\ waiter' = m.waiter
    /\ detected' = m.detected
    /\ pc' = [pc EXCEPT ![t] = m.pc]
    /\ drained' = [drained EXCEPT ![t] = m.drained]
    /\ queued' = [queued EXCEPT ![t] = m.queued]
    /\ sends' = [sends EXCEPT ![t] = m.sends]
    /\ sent' = [sent EXCEPT ![t] = m.sent]
    /\ drains' = [drains EXCEPT ![t] = m.drains]
    /\ recvs' = [recvs EXCEPT ![t] = m.recvs]
    /\ sentOn' = [sentOn EXCEPT ![t] = m.sentOn]
    /\ got' = [got EXCEPT ![t] = m.got]
    /\ result' = [result EXCEPT ![t] = m.result]

\* The tool function returns: the except clause and the envelope formatting
\* of _execute_command or of check_connection.
Return(m, out) ==
    [m EXCEPT !.pc = "done",
              !.result = CASE m.o = "check_connection" -> check_connection(out)
                           [] m.o = "send_command" -> Returned(out)
                           [] OTHER -> _execute_command(m.o, m.p, out)]

\* A transport failure answered by writing the command once more.
TransportFailure_resend(m, s) ==
    Return([m EXCEPT !.detected = @ \cup {s}, !.sent = @ + 1], Raised(ExcClosed))

\* A transport failure after which the connection is marked as lost.
TransportFailure_reset(m, s) ==
    Return([m EXCEPT !.detected = @ \cup {s}, !.conn = FALSE], Raised(ExcClosed))

\* A transport failure answered by connecting again.
TransportFailure_reconnect(m, s) ==
    [m EXCEPT !.detected = @ \cup {s}, !.conn = FALSE, !.pc = "connecting"]

\* A transport failure on socket s surfaces: send_command's except clause
\* logs and re-raises, and changes nothing else.
TransportFailure(m, s) ==
    Return([m EXCEPT !.detected = @ \cup {s}], Raised(ExcClosed))

\* response = await self.websocket.recv(); return json.loads(response)
\* recv() raises when another coroutine is already waiting in recv() on the
\* socket, returns a buffered frame at once, raises when the connection is
\* closed and nothing is buffered, and otherwise suspends.
recv_reply(t, m0) ==
    LET s == m0.ws
        m == [m0 EXCEPT !.recvs = @ + 1]
    IN
    IF m.waiter[s] # None
    THEN Return(m, Raised(ExcConcurrent))
    ELSE IF m.inbox[s] # <<>>
    THEN Return([m EXCEPT !.inbox[s] = Tail(@), !.got = Head(m.inbox[s])],
                json_loads(Head(m.inbox[s])))
    ELSE IF m.sock[s] = "closed"
    THEN TransportFailure(m, s)
    ELSE [m EXCEPT !.waiter[s] = t, !.pc = "recv"]

\* message = json.dumps(command); await self.websocket.send(message); then
\* the receive.  send() raises on a closed connection and otherwise writes
\* the frame without suspending.
send(t, m0) ==
    LET m == [m0 EXCEPT !.sends = @ + 1]
        s == m.ws
    IN
    IF m.sock[s] # "open"
    THEN TransportFailure(m, s)
    ELSE recv_reply(t, [m EXCEPT !.hostPending[s] = Append(@, m.c),
                                 !.sent = @ + 1, !.sentOn = s])

\* What the body of the drain's loop does with a message recv() returned:
\* data = json.loads(response), then data.get("type").  Text that is not JSON
\* raises JSONDecodeError, caught inside the loop; an object is logged; a JSON
\* value that is not an object has no get, and the AttributeError leaves the
\* loop.
drain_message(f) ==
    CASE f.kind = "garbage" -> "discarded"
      [] f.kind = "scalar"  -> "raised"
      [] OTHER              -> "discarded"

\* A drain that marks the connection as lost when it returns.
drain_end_reset(m) == [m EXCEPT !.drains = @ + 1, !.conn = FALSE]

\* _drain_welcome_messages returns: after the break on a timeout, or after
\* its outer except clause swallowed an exception.
drain_end(m) == [m EXCEPT !.drains = @ + 1]

\* _drain_welcome_messages: recv() with a short timeout until it times out.
\* Buffered frames are returned at once; any exception that leaves the loop
\* ends the drain and is swallowed; with nothing buffered the coroutine
\* suspends in recv() until a frame, the timeout or a close.
\* A drain that returns at once, discarding nothing.
drain_skipped(t, m) ==
    send(t, drain_end(m))

\* A drain that lets the exception out: send_command's except clause.
drain_except_raises(t, m) ==
    TransportFailure(m, m.ws)

\* The outer except clause of the drain: the exception is logged at debug
\* level, the drain returns, and send_command goes on to the send.
drain_except(t, m) ==
    send(t, drain_end(m))

RECURSIVE _drain_welcome_messages(_, _)
_drain_welcome_messages(t, m) ==
    LET s == m.ws IN
    IF m.waiter[s] # None
    THEN drain_except(t, m)
    ELSE IF m.inbox[s] # <<>>
    THEN LET m1 == [m EXCEPT !.inbox[s] = Tail(@), !.drained = @ + 1]
         IN IF drain_message(Head(m.inbox[s])) = "raised"
            THEN drain_except(t, m1)
            ELSE _drain_welcome_messages(t, m1)
    ELSE IF m.sock[s] = "closed"
    THEN drain_except(t, m)
    ELSE [m EXCEPT !.waiter[s] = t, !.pc = "drain"]

\* send_command without its precondition: with no handle stored the drain
\* swallows the AttributeError of None.recv and None.send raises it.
send_command_unguarded(t, m) ==
    IF m.ws = None
    THEN Return([m EXCEPT !.drains = @ + 1, !.sends = @ + 1], Raised(ExcAttribute))
    ELSE _drain_welcome_messages(t, [m EXCEPT !.queued = Len(m.inbox[m.ws])])

\* send_command checking the handle alone.
send_command_handle_only(t, m) ==
    IF m.ws = None
    THEN Return(m, Raised(ExcNotConnected))
    ELSE _drain_welcome_messages(t, [m EXCEPT !.queued = Len(m.inbox[m.ws])])

\* send_command writing the frame without the drain.
send_command_nodrain(t, m) ==
    IF ~m.conn \/ m.ws = None
    THEN Return(m, Raised(ExcNotConnected))
    ELSE send(t, m)

\* send_command: the precondition, then drain, send, receive.
send_command(t, m) ==
    IF ~m.conn \/ m.ws = None
    THEN Return(m, Raised(ExcNotConnected))
    ELSE _drain_welcome_messages(t, [m EXCEPT !.queued = Len(m.inbox[m.ws])])

\* The socket on which task t is suspended in recv().
MySock(t) == CHOOSE s \in Socks : waiter[s] = t

\* ---------------------------------------------------------- the tasks

Init ==
    /\ connected = FALSE
    /\ websocket = None
    /\ sock = [s \in Socks |-> "free"]
    /\ inbox = [s \in Socks |-> <<>>]
    /\ hostPending = [s \in Socks |-> <<>>]
    /\ waiter = [s \in Socks |-> None]
    /\ pc = [t \in Tasks |-> "idle"]
    /\ op = [t \in Tasks |-> "get_scene_tree"]
    /\ params = [t \in Tasks |-> NoParams]
    /\ cmd = [t \in Tasks |-> 0]
    /\ command = [t \in Tasks |-> NoCommand]
    /\ attempt = [t \in Tasks |-> 0]
    /\ calls = [t \in Tasks |-> 0]
    /\ delays = [t \in Tasks |-> 0]
    /\ lastFail = [t \in Tasks |-> "none"]
    /\ conns = [t \in Tasks |-> 0]
    /\ connRet = [t \in Tasks |-> "none"]
    /\ accepted = [t \in Tasks |-> FALSE]
    /\ entryConn = [t \in Tasks |-> FALSE]
    /\ drained = [t \in Tasks |-> 0]
    /\ queued = [t \in Tasks |-> 0]
    /\ sends = [t \in Tasks |-> 0]
    /\ sent = [t \in Tasks |-> 0]
    /\ drains = [t \in Tasks |-> 0]
    /\ recvs = [t \in Tasks |-> 0]
    /\ sentOn = [t \in Tasks |-> None]
    /\ got = [t \in Tasks |-> NoFrame]
    /\ result = [t \in Tasks |-> NoResult]
    /\ detected = {}
    /\ nOps = 0
    /\ nPush = 0
    /\ nClose = 0

\* What a new invocation starts from.
Fresh(t, o) ==
    [M(t) EXCEPT !.o = o, !.p = NoParams, !.c = nOps + 1, !.drained = 0,
                 !.queued = 0, !.sends = 0, !.sent = 0, !.drains = 0,
                 !.recvs = 0,
                 !.sentOn = None,
                 !.got = NoFrame, !.result = NoResult]

\* ensure_godot_connection connecting whatever connected holds.
ensure_always_connects(conn) == "connect"

\* ensure_godot_connection, when connected is read.
ensure_godot_connection(conn) == IF conn THEN "connected" ELSE "connect"

\* The frontend invokes tool o as task t (the first task that is free): the
\* tool function runs up to its first suspension.  ensure_godot_connection either starts connect() (whose
\* first websockets.connect suspends) or returns, and send_command follows.
Start(t, o) ==
    /\ pc[t] = "idle"
    /\ \A u \in Tasks : u < t => pc[u] # "idle"
    /\ nOps < MaxOps
    /\ nOps' = nOps + 1
    /\ op' = [op EXCEPT ![t] = o]
    /\ params' = [params EXCEPT ![t] = NoParams]
    /\ cmd' = [cmd EXCEPT ![t] = nOps + 1]
    /\ command' = command
    /\ entryConn' = [entryConn EXCEPT ![t] = connected]
    /\ attempt' = [attempt EXCEPT ![t] = 0]
    /\ calls' = [calls EXCEPT ![t] = 0]
    /\ delays' = [delays EXCEPT ![t] = 0]
    /\ lastFail' = [lastFail EXCEPT ![t] = "none"]
    /\ connRet' = [connRet EXCEPT ![t] = "none"]
    /\ accepted' = [accepted EXCEPT ![t] = FALSE]
    /\ IF ensure_godot_connection(connected) = "connect"
       THEN /\ conns' = [conns EXCEPT ![t] = 1]
            /\ Commit(t, [Fresh(t, o) EXCEPT !.pc = "connecting"])
       ELSE /\ conns' = [conns EXCEPT ![t] = 0]
            /\ Commit(t, send_command(t, Fresh(t, o)))
    /\ UNCHANGED <<nPush, nClose>>

\* A loop one attempt short: for attempt in range(max_retries).
LastAttempt_short(a) == ~(a < max_retries - 1)

\* The loop of connect(): for attempt in range(max_retries + 1).
LastAttempt(a) == ~(a < max_retries)

\* connect() storing the handle without setting connected.
connect_ok_noflag(m, s) ==
    [m EXCEPT !.ws = s, !.sock[s] = "open"]

\* connect() setting connected without storing the new handle.
connect_ok_keephandle(m, s) ==
    [m EXCEPT !.conn = TRUE, !.sock[s] = "open"]

\* connect() on a successful websockets.connect: the handle is stored and
\* connected set; connect() returns True.
connect_ok(m, s) ==
    [m EXCEPT !.ws = s, !.conn = TRUE, !.sock[s] = "open"]

\* websockets.connect succeeds; connect() returns True,
\* ensure_godot_connection returns and send_command runs up to its first
\* suspension.
ConnectSucceed(t) ==
    /\ pc[t] = "connecting"
    /\ \E s \in Socks :
        /\ sock[s] = "free"
        /\ \A r \in Socks : sock[r] = "free" => s <= r
        /\ calls' = [calls EXCEPT ![t] = @ + 1]
        /\ connRet' = [connRet EXCEPT ![t] = "true"]
        /\ accepted' = [u \in Tasks |-> accepted[u] \/ pc[u] # "idle"]
        /\ Commit(t, send_command(t, connect_ok(M(t), s)))
    /\ UNCHANGED <<op, params, cmd, entryConn, conns, attempt, nOps, nPush, nClose,
                   delays, lastFail, command>>

\* ensure_godot_connection ignoring what connect() returned.
connect_exhausted_ignored(t, m) ==
    send_command(t, m)

\* connect() returned False: ensure_godot_connection raises ConnectionError,
\* which the dispatcher's except clause turns into the returned value.
connect_exhausted(t, m) ==
    Return(m, Raised(ExcConnectFailed))

\* A connect() whose except clauses catch the timeout alone.
caught_timeout_only(kind) == kind = "timeout"

\* except asyncio.TimeoutError: / except Exception as e: an attempt that
\* times out and one that raises are both caught and logged.
caught(kind) == kind \in {"timeout", "error"}

\* A delay after every attempt.
retry_delay_always(a) == TRUE

\* if attempt < self.config.max_retries: await asyncio.sleep(retry_delay)
retry_delay(a) == a < max_retries

\* The for loop after the body of iteration attempt[t]: the next iteration's
\* websockets.connect, or, the range exhausted, return False.
loop_next(t) ==
    IF LastAttempt(attempt[t])
    THEN /\ connRet' = [connRet EXCEPT ![t] = "false"]
         /\ attempt' = attempt
         /\ Commit(t, connect_exhausted(t, M(t)))
    ELSE /\ connRet' = connRet
         /\ attempt' = [attempt EXCEPT ![t] = @ + 1]
         /\ Commit(t, [M(t) EXCEPT !.pc = "connecting"])

\* websockets.connect times out or raises: caught and logged; then the retry
\* delay or, after the last attempt, connect() returns False.
ConnectFail(t, kind) ==
    /\ pc[t] = "connecting"
    /\ calls' = [calls EXCEPT ![t] = @ + 1]
    /\ lastFail' = [lastFail EXCEPT ![t] = kind]
    /\ IF ~caught(kind)
       THEN /\ Commit(t, Return(M(t), Raised(ExcRefused)))
            /\ UNCHANGED <<attempt, connRet, delays>>
       ELSE IF retry_delay(attempt[t])
       THEN /\ delays' = [delays EXCEPT ![t] = @ + 1]
            /\ Commit(t, [M(t) EXCEPT !.pc = "sleeping"])
            /\ UNCHANGED <<attempt, connRet>>
       ELSE /\ delays' = delays
            /\ loop_next(t)
    /\ UNCHANGED <<op, params, cmd, entryConn, conns, accepted, nOps, nPush,
                   nClose, command>>

\* asyncio.sleep(retry_delay) ends: the loop goes on.
Retry(t) ==
    /\ pc[t] = "sleeping"
    /\ lastFail' = [lastFail EXCEPT ![t] = "none"]
    /\ loop_next(t)
    /\ UNCHANGED <<op, params, cmd, calls, delays, conns, accepted, entryConn,
                   nOps, nPush, nClose, command>>

\* The coroutine's own recv() is over: the socket has no waiter again.
Woken(t) == [M(t) EXCEPT !.waiter[MySock(t)] = None]

\* A frame arrives while the drain waits: the loop body handles it.
\* The drain calls self.websocket.recv() anew, on the handle stored now.
DrainFrame(t) ==
    /\ pc[t] = "drain"
    /\ inbox[MySock(t)] # <<>>
    /\ LET s == MySock(t)
           m1 == [Woken(t) EXCEPT !.inbox[s] = Tail(@), !.drained = @ + 1]
       IN Commit(t, IF drain_message(Head(inbox[s])) = "raised"
                    THEN drain_except(t, m1)
                    ELSE _drain_welcome_messages(t, m1))
    /\ UNCHANGED <<op, params, cmd, entryConn, conns, attempt, calls, connRet,
                   accepted, nOps, nPush, nClose, delays, lastFail, command>>

\* The drain's recv() times out with nothing received: break, then the send.
DrainTimeout(t) ==
    /\ pc[t] = "drain"
    /\ inbox[MySock(t)] = <<>>
    /\ sock[MySock(t)] # "closed"
    /\ Commit(t, send(t, drain_end(Woken(t))))
    /\ UNCHANGED <<op, params, cmd, entryConn, conns, attempt, calls, connRet,
                   accepted, nOps, nPush, nClose, delays, lastFail, command>>

\* The connection closes while the drain waits: recv() raises, the drain
\* swallows it, then the send.
DrainClosed(t) ==
    /\ pc[t] = "drain"
    /\ inbox[MySock(t)] = <<>>
    /\ sock[MySock(t)] = "closed"
    /\ Commit(t, drain_except(t, Woken(t)))
    /\ UNCHANGED <<op, params, cmd, entryConn, conns, attempt, calls, connRet,
                   accepted, nOps, nPush, nClose, delays, lastFail, command>>

\* A frame arrives while send_command waits for the response: parsed and
\* returned, and the dispatcher formats the envelope.
RecvFrame(t) ==
    /\ pc[t] = "recv"
    /\ inbox[MySock(t)] # <<>>
    /\ LET s == MySock(t)
           f == Head(inbox[s])
       IN Commit(t, Return([Woken(t) EXCEPT !.inbox[s] = Tail(@), !.got = f],
                           json_loads(f)))
    /\ UNCHANGED <<op, params, cmd, entryConn, conns, attempt, calls, connRet,
                   accepted, nOps, nPush, nClose, delays, lastFail, command>>

\* The connection closes while send_command waits for the response.
RecvClosed(t) ==
    /\ pc[t] = "recv"
    /\ inbox[MySock(t)] = <<>>
    /\ sock[MySock(t)] = "closed"
    /\ Commit(t, TransportFailure(Woken(t), MySock(t)))
    /\ UNCHANGED <<op, params, cmd, entryConn, conns, attempt, calls, connRet,
                   accepted, nOps, nPush, nClose, delays, lastFail, command>>

\* The frontend hands the returned value to the caller; the task is free.
Collect(t) ==
    /\ pc[t] = "done"
    /\ pc' = [pc EXCEPT ![t] = "idle"]
    /\ op' = [op EXCEPT ![t] = "get_scene_tree"]
    /\ params' = [params EXCEPT ![t] = NoParams]
    /\ cmd' = [cmd EXCEPT ![t] = 0]
    /\ command' = [command EXCEPT ![t] = NoCommand]
    /\ attempt' = [attempt EXCEPT ![t] = 0]
    /\ calls' = [calls EXCEPT ![t] = 0]
    /\ delays' = [delays EXCEPT ![t] = 0]
    /\ lastFail' = [lastFail EXCEPT ![t] = "none"]
    /\ conns' = [conns EXCEPT ![t] = 0]
    /\ connRet' = [connRet EXCEPT ![t] = "none"]
    /\ accepted' = [accepted EXCEPT ![t] = FALSE]
    /\ entryConn' = [entryConn EXCEPT ![t] = FALSE]
    /\ drained' = [drained EXCEPT ![t] = 0]
    /\ queued' = [queued EXCEPT ![t] = 0]
    /\ sends' = [sends EXCEPT ![t] = 0]
    /\ sent' = [sent EXCEPT ![t] = 0]
    /\ drains' = [drains EXCEPT ![t] = 0]
    /\ recvs' = [recvs EXCEPT ![t] = 0]
    /\ sentOn' = [sentOn EXCEPT ![t] = None]
    /\ got' = [got EXCEPT ![t] = NoFrame]
    /\ result' = [result EXCEPT ![t] = NoResult]
    /\ UNCHANGED <<connected, websocket, sock, inbox, hostPending, waiter,
                   detected, nOps, nPush, nClose>>

\* ----------------------------------------------------------- the host

\* The host answers the oldest command it has read on connection s.
HostReply(s, kind) ==
    /\ sock[s] = "open"
    /\ hostPending[s] # <<>>
    /\ inbox' = [inbox EXCEPT ![s] = Append(@, Reply(kind, Head(hostPending[s])))]
    /\ hostPending' = [hostPending EXCEPT ![s] = Tail(@)]
    /\ UNCHANGED <<connected, websocket, sock, waiter, pc, op, params, cmd,
                   attempt, calls, conns, connRet, accepted, entryConn, drained,
                   queued, sent, recvs, sentOn, got, result, detected, nOps, nPush,
                   nClose, delays, lastFail, drains, command, sends>>

\* The host pushes an unsolicited message on connection s.
HostPush(s) ==
    /\ sock[s] = "open"
    /\ nPush < MaxPush
    /\ nPush' = nPush + 1
    /\ inbox' = [inbox EXCEPT ![s] = Append(@, Welcome)]
    /\ UNCHANGED <<connected, websocket, sock, hostPending, waiter, pc, op, params,
                   cmd, attempt, calls, conns, connRet, accepted, entryConn,
                   drained, queued, sent, recvs, sentOn, got, result, detected,
                   nOps, nClose, delays, lastFail, drains, command, sends>>

\* The host closes connection s; commands it had not answered are lost.
HostClose(s) ==
    /\ sock[s] = "open"
    /\ nClose < MaxClose
    /\ nClose' = nClose + 1
    /\ sock' = [sock EXCEPT ![s] = "closed"]
    /\ hostPending' = [hostPending EXCEPT ![s] = <<>>]
    /\ UNCHANGED <<connected, websocket, inbox, waiter, pc, op, params, cmd,
                   attempt, calls, conns, connRet, accepted, entryConn, drained,
                   queued, sent, recvs, sentOn, got, result, detected, nOps, nPush,
                   delays, lastFail, drains, command, sends>>

Next ==
    \/ \E t \in Tasks, o \in Ops : Start(t, o)
    \/ \E t \in Tasks : ConnectSucceed(t)
    \/ \E t \in Tasks, kind \in {"timeout", "error"} : ConnectFail(t, kind)
    \/ \E t \in Tasks : Retry(t)
    \/ \E t \in Tasks : DrainFrame(t)
    \/ \E t \in Tasks : DrainTimeout(t)
    \/ \E t \in Tasks : DrainClosed(t)
    \/ \E t \in Tasks : RecvFrame(t)
    \/ \E t \in Tasks : RecvClosed(t)
    \/ \E t \in Tasks : Collect(t)
    \/ \E s \in Socks, kind \in ReplyKinds : HostReply(s, kind)
    \/ \E s \in Socks : HostPush(s)
    \/ \E s \in Socks : HostClose(s)

Spec == Init /\ [][Next]_vars

\* ------------------------------ the connection object called directly

\* No tool invocation or direct call is in progress.
Quiescent == \A u \in Tasks : pc[u] \in {"idle", "done"}

\* disconnect() leaving connected as it is.
disconnect_done_noflag(m) ==
    [m EXCEPT !.pc = "done"]

\* disconnect() after the close: self.connected = False.
disconnect_done(m) ==
    [m EXCEPT !.conn = FALSE, !.pc = "done"]

\* disconnect(): nothing without a handle; else close() and then the flag.
\* close() on an open connection sends the close frame and suspends until
\* the closing handshake is over; on a connection already closed it returns
\* at once.
disconnect(m) ==
    IF m.ws = None
    THEN [m EXCEPT !.pc = "done"]
    ELSE IF m.sock[m.ws] = "open"
    THEN [m EXCEPT !.sock[m.ws] = "closed", !.hostPending[m.ws] = <<>>,
                   !.pc = "closing"]
    ELSE disconnect_done(m)

\* The owner of the connection calls disconnect() as task t.  Nothing in the
\* server calls it; it is the teardown of the connection, called when no
\* invocation is in progress.
Disconnect(t) ==
    /\ pc[t] = "idle"
    /\ \A u \in Tasks : u < t => pc[u] # "idle"
    /\ Quiescent
    /\ op' = [op EXCEPT ![t] = "disconnect"]
    /\ entryConn' = [entryConn EXCEPT ![t] = connected]
    /\ Commit(t, disconnect(M(t)))
    /\ UNCHANGED <<params, cmd, attempt, calls, conns, connRet, accepted, nOps,
                   nPush, nClose, delays, lastFail, command>>

\* The closing handshake is over: close() returns.
DisconnectDone(t) ==
    /\ pc[t] = "closing"
    /\ Commit(t, disconnect_done(M(t)))
    /\ UNCHANGED <<op, params, cmd, entryConn, conns, attempt, calls, connRet,
                   accepted, nOps, nPush, nClose, delays, lastFail, command>>

\* A caller invokes godot.send_command(command) as task t without
\* ensure_godot_connection before it.
DirectSend(t) ==
    /\ pc[t] = "idle"
    /\ \A u \in Tasks : u < t => pc[u] # "idle"
    /\ nOps < MaxOps
    /\ nOps' = nOps + 1
    /\ op' = [op EXCEPT ![t] = "send_command"]
    /\ cmd' = [cmd EXCEPT ![t] = nOps + 1]
    /\ entryConn' = [entryConn EXCEPT ![t] = connected]
    /\ Commit(t, send_command(t, Fresh(t, "send_command")))
    /\ UNCHANGED <<params, attempt, calls, conns, connRet, accepted, nPush, nClose,
                   delays, lastFail, command>>

NextAPI ==
    \/ Next
    \/ \E t \in Tasks : Disconnect(t)
    \/ \E t \in Tasks : DisconnectDone(t)
    \/ \E t \in Tasks : DirectSend(t)

SpecAPI == Init /\ [][NextAPI]_vars

\* ------------------------------------- the dispatch of a response alone

\* The tools and arguments, and the responses, the dispatch is applied to.
FormatOps ==
    {"get_scene_tree", "create_node", "check_connection", "set_script_content",
     "validate_script"}

FormatParams(o) ==
    CASE o = "create_node" -> {[node_type |-> "InvalidType"], [node_type |-> "Sprite2D"]}
      [] o \in {"set_script_content", "validate_script"} ->
            {[node_type |-> "", node_path |-> "Player", content |-> c] :
                c \in {valid_script, invalid_script}}
      [] OTHER -> {NoParams}

StatusValues == {"success", "error", "failed", "absent"}

ErrorValues == {"absent", NoScene, "No scene is currently open.", "Invalid node type"}

\* Diagnostic data of every shape: each entry missing, null, of another
\* type, or as the host documents it.
DebugData ==
    {MkDict([godot_version |-> v, server_status |-> c, timestamp |-> u, error_log |-> l]) :
        v \in {JAbsent, JNull, JStr("4.5"), JDict(EmptyMap), JDict([string |-> JStr("4.5.stable")])},
        c \in {JAbsent, JNull, JDict(EmptyMap), JDict([client_count |-> JInt(2)])},
        u \in {JAbsent, JInt(1700000000)},
        l \in {JAbsent, JNull, JList(0), JList(2)}}

\* What the host answers validate_script with.
ValidationData ==
    {JDict([valid |-> JBool(TRUE)]),
     JDict([valid |-> JBool(FALSE), error |-> JStr("Invalid GDScript syntax")]),
     JDict([valid |-> JBool(FALSE)])}

DataValues ==
    DebugData \cup ValidationData
        \cup {JAbsent, JNull, SceneData,
              JDict([node_path |-> JStr("Main/Player"), node_name |-> JStr("Player")])}

FormatFrames ==
    {[kind |-> "reply", cmd |-> 1, status |-> st, error |-> e, data |-> d] :
        st \in StatusValues, e \in ErrorValues, d \in DataValues}
    \cup {Reply("garbage", 1)}

\* Task 1 has written its command and recv() has returned frame f.
InitFormat ==
    /\ connected = TRUE
    /\ websocket = 1
    /\ sock = [s \in Socks |-> IF s = 1 THEN "open" ELSE "free"]
    /\ inbox = [s \in Socks |-> <<>>]
    /\ hostPending = [s \in Socks |-> <<>>]
    /\ waiter = [s \in Socks |-> None]
    /\ pc = [t \in Tasks |-> IF t = 1 THEN "format" ELSE "idle"]
    /\ \E o \in FormatOps : \E p \in FormatParams(o) :
          /\ op = [t \in Tasks |-> IF t = 1 THEN o ELSE "get_scene_tree"]
          /\ params = [t \in Tasks |-> IF t = 1 THEN p ELSE NoParams]
    /\ cmd = [t \in Tasks |-> IF t = 1 THEN 1 ELSE 0]
    /\ command = [t \in Tasks |-> NoCommand]
    /\ attempt = [t \in Tasks |-> 0]
    /\ calls = [t \in Tasks |-> 0]
    /\ delays = [t \in Tasks |-> 0]
    /\ lastFail = [t \in Tasks |-> "none"]
    /\ conns = [t \in Tasks |-> 0]
    /\ connRet = [t \in Tasks |-> "none"]
    /\ accepted = [t \in Tasks |-> FALSE]
    /\ entryConn = [t \in Tasks |-> t = 1]
    /\ drained = [t \in Tasks |-> 0]
    /\ queued = [t \in Tasks |-> 0]
    /\ sends = [t \in Tasks |-> IF t = 1 THEN 1 ELSE 0]
    /\ sent = [t \in Tasks |-> IF t = 1 THEN 1 ELSE 0]
    /\ drains = [t \in Tasks |-> IF t = 1 THEN 1 ELSE 0]
    /\ recvs = [t \in Tasks |-> IF t = 1 THEN 1 ELSE 0]
    /\ sentOn = [t \in Tasks |-> IF t = 1 THEN 1 ELSE None]
    /\ \E f \in FormatFrames : got = [t \in Tasks |-> IF t = 1 THEN f ELSE NoFrame]
    /\ result = [t \in Tasks |-> NoResult]
    /\ detected = {}
    /\ nOps = 1
    /\ nPush = 0
    /\ nClose = 0

\* return json.loads(response), and the dispatcher's handling of it.
Format ==
    /\ pc[1] = "format"
    /\ Commit(1, Return(M(1), json_loads(got[1])))
    /\ UNCHANGED <<op, params, cmd, entryConn, conns, attempt, calls, connRet,
                   accepted, nOps, nPush, nClose, delays, lastFail, command>>

NextFormat == Format

SpecFormat == InitFormat /\ [][NextFormat]_vars

\* ------------------------------------- invocations one after another

\* The frontend invokes a tool when no invocation is in progress.
StartSeq(t, o) ==
    /\ Quiescent
    /\ Start(t, o)

\* The host pushes an unsolicited message while no invocation is waiting
\* for a response.
PushIdle(s) ==
    /\ \A t \in Tasks : pc[t] # "recv"
    /\ HostPush(s)

NextSeq ==
    \/ \E t \in Tasks, o \in Ops : StartSeq(t, o)
    \/ \E t \in Tasks : ConnectSucceed(t)
    \/ \E t \in Tasks, kind \in {"timeout", "error"} : ConnectFail(t, kind)
    \/ \E t \in Tasks : Retry(t)
    \/ \E t \in Tasks : DrainFrame(t)
    \/ \E t \in Tasks : DrainTimeout(t)
    \/ \E t \in Tasks : DrainClosed(t)
    \/ \E t \in Tasks : RecvFrame(t)
    \/ \E t \in Tasks : RecvClosed(t)
    \/ \E t \in Tasks : Collect(t)
    \/ \E s \in Socks, kind \in ReplyKinds : HostReply(s, kind)
    \/ \E s \in Socks : PushIdle(s)
    \/ \E s \in Socks : HostClose(s)

SpecSeq == Init /\ [][NextSeq]_vars

\* ------------------------------------------- the drain on its own

\* The shapes a pending message can have: a welcome object, another object,
\* a JSON value that is not an object, text that is not JSON.
PendingShapes == {Welcome, Notice, Scalar, Reply("garbage", 0)}

PendingQueues ==
    UNION {[1..n -> PendingShapes] : n \in 0..MaxPending}

\* The connection is up, messages are pending on it, and one invocation is
\* still to come.
InitDrain ==
    /\ connected = TRUE
    /\ websocket = 1
    /\ sock = [s \in Socks |-> IF s = 1 THEN "open" ELSE "free"]
    /\ \E q \in PendingQueues : inbox = [s \in Socks |-> IF s = 1 THEN q ELSE <<>>]
    /\ hostPending = [s \in Socks |-> <<>>]
    /\ waiter = [s \in Socks |-> None]
    /\ pc = [t \in Tasks |-> "idle"]
    /\ op = [t \in Tasks |-> "get_scene_tree"]
    /\ params = [t \in Tasks |-> NoParams]
    /\ cmd = [t \in Tasks |-> 0]
    /\ command = [t \in Tasks |-> NoCommand]
    /\ attempt = [t \in Tasks |-> 0]
    /\ calls = [t \in Tasks |-> 0]
    /\ delays = [t \in Tasks |-> 0]
    /\ lastFail = [t \in Tasks |-> "none"]
    /\ conns = [t \in Tasks |-> 0]
    /\ connRet = [t \in Tasks |-> "none"]
    /\ accepted = [t \in Tasks |-> FALSE]
    /\ entryConn = [t \in Tasks |-> FALSE]
    /\ drained = [t \in Tasks |-> 0]
    /\ queued = [t \in Tasks |-> 0]
    /\ sends = [t \in Tasks |-> 0]
    /\ sent = [t \in Tasks |-> 0]
    /\ drains = [t \in Tasks |-> 0]
    /\ recvs = [t \in Tasks |-> 0]
    /\ sentOn = [t \in Tasks |-> None]
    /\ got = [t \in Tasks |-> NoFrame]
    /\ result = [t \in Tasks |-> NoResult]
    /\ detected = {}
    /\ nOps = MaxOps - 1
    /\ nPush = 0
    /\ nClose = 0

\* The steps of an invocation on a connection that is up, and of the host.
NextDrain ==
    \/ \E t \in Tasks, o \in Ops : Start(t, o)
    \/ \E t \in Tasks : DrainFrame(t)
    \/ \E t \in Tasks : DrainTimeout(t)
    \/ \E t \in Tasks : DrainClosed(t)
    \/ \E t \in Tasks : RecvFrame(t)
    \/ \E t \in Tasks : RecvClosed(t)
    \/ \E t \in Tasks : Collect(t)
    \/ \E s \in Socks, kind \in ReplyKinds : HostReply(s, kind)
    \/ \E s \in Socks : HostPush(s)
    \/ \E s \in Socks : HostClose(s)

SpecDrain == InitDrain /\ [][NextDrain]_vars

\* ------------------------------------ the command of add_property_track

TYPE_VALUE == 4
TYPE_METHOD == 5

JFloat(k) == [tag |-> "float", s |-> "", n |-> k, map |-> EmptyMap]

\* A property path is kept as its segments between colons: "Sprite:position"
\* is <<"Sprite", "position">>, and the empty string is <<"">>.
boolean_properties ==
    {<<"visible">>, <<"enabled">>, <<"active">>, <<"disabled">>, <<"hidden">>}

\* isinstance(v, (int, float)); bool is a subclass of int.
is_number(v) == v.tag \in {"int", "float", "bool"}

\* add_property_track up to the params of its command: the split of
\* property_path at its first colon, then the choice of track type and path.
track_params(property_path, initial_value) ==
    LET has_colon == Len(property_path) > 1
        node_path == <<Head(property_path)>>
        prop_name == IF has_colon THEN Tail(property_path) ELSE <<"">>
        is_boolean_prop ==
            prop_name \in boolean_properties \/ initial_value.tag = "bool"
    IN IF is_number(initial_value) /\ ~is_boolean_prop
       THEN [track_type |-> TYPE_VALUE, track_path |-> property_path]
       ELSE IF is_boolean_prop \/ initial_value.tag = "bool"
       THEN [track_type |-> TYPE_METHOD, track_path |-> node_path]
       ELSE IF initial_value.tag = "list"
       THEN [track_type |-> TYPE_METHOD, track_path |-> node_path]
       ELSE [track_type |-> TYPE_VALUE, track_path |-> property_path]

\* The property paths and initial values add_property_track is called with.
PropertyPaths ==
    {<<n>> : n \in {".", "Sprite"}}
        \cup {<<n, q>> : n \in {".", "Sprite"},
                         q \in {"position", "modulate", "rotation", "visible",
                                "enabled", "active", "disabled", "hidden", ""}}
        \cup {<<"Sprite", "material", "albedo">>, <<"Sprite", "visible", "x">>}

InitialValues ==
    {JInt(0), JInt(100), JFloat(1), JBool(TRUE), JBool(FALSE), JList(2), JList(4),
     JStr("red"), JNull, JDict(EmptyMap)}

\* The frontend has invoked add_property_track as task 1.
InitTrack ==
    /\ connected = FALSE
    /\ websocket = None
    /\ sock = [s \in Socks |-> "free"]
    /\ inbox = [s \in Socks |-> <<>>]
    /\ hostPending = [s \in Socks |-> <<>>]
    /\ waiter = [s \in Socks |-> None]
    /\ pc = [t \in Tasks |-> IF t = 1 THEN "build" ELSE "idle"]
    /\ op = [t \in Tasks |-> IF t = 1 THEN "add_property_track" ELSE "get_scene_tree"]
    /\ \E q \in PropertyPaths, v \in InitialValues :
          params = [t \in Tasks |->
                       IF t = 1
                       THEN [node_type |-> "", property_path |-> q, initial_value |-> v]
                       ELSE NoParams]
    /\ cmd = [t \in Tasks |-> IF t = 1 THEN 1 ELSE 0]
    /\ command = [t \in Tasks |-> NoCommand]
    /\ attempt = [t \in Tasks |-> 0]
    /\ calls = [t \in Tasks |-> 0]
    /\ delays = [t \in Tasks |-> 0]
    /\ lastFail = [t \in Tasks |-> "none"]
    /\ conns = [t \in Tasks |-> 0]
    /\ connRet = [t \in Tasks |-> "none"]
    /\ accepted = [t \in Tasks |-> FALSE]
    /\ entryConn = [t \in Tasks |-> FALSE]
    /\ drained = [t \in Tasks |-> 0]
    /\ queued = [t \in Tasks |-> 0]
    /\ sends = [t \in Tasks |-> 0]
    /\ sent = [t \in Tasks |-> 0]
    /\ drains = [t \in Tasks |-> 0]
    /\ recvs = [t \in Tasks |-> 0]
    /\ sentOn = [t \in Tasks |-> None]
    /\ got = [t \in Tasks |-> NoFrame]
    /\ result = [t \in Tasks |-> NoResult]
    /\ detected = {}
    /\ nOps = 1
    /\ nPush = 0
    /\ nClose = 0

\* add_property_track builds the params of its add_animation_track command.
BuildTrack ==
    /\ pc[1] = "build"
    /\ pc' = [pc EXCEPT ![1] = "built"]
    /\ command' = [command EXCEPT
                      ![1] = track_params(params[1].property_path,
                                          params[1].initial_value)]
    /\ UNCHANGED <<connected, websocket, sock, inbox, hostPending, waiter, op,
                   params, cmd, attempt, calls, delays, lastFail, conns, connRet,
                   accepted, entryConn, drained, queued, sent, drains, recvs,
                   sentOn, got, result, detected, nOps, nPush, nClose, sends>>

NextTrack == BuildTrack

SpecTrack == InitTrack /\ [][NextTrack]_vars

\* ---------------------------------------------------------- the claims

InSeq(x, q) == \E i \in 1..Len(q) : q[i] = x

\* C1. Envelope totality: whatever the host did (connect failure, success
\* reply, error reply, reply that is not JSON, connection dropped), the value
\* an invocation returns is a success envelope with data or an error envelope
\* with a message; no exception leaves the tool function.
C1_EnvelopeTotality ==
    \A t \in Tasks : pc[t] = "done" =>
        \/ result[t].status = "success" /\ result[t].data # JAbsent
        \/ result[t].status = "error" /\ result[t].message # <<>>

\* An invocation of each dispatcher has returned after a reply that is not
\* JSON, and another after the connection was dropped.
C1_Witness ==
    /\ pc[1] = "done" /\ op[1] = "check_connection" /\ got[1].kind = "garbage"
    /\ pc[2] = "done" /\ op[2] = "get_scene_tree" /\ sentOn[2] \in detected
    /\ result[1].status = "error" /\ result[2].status = "error"

\* C2. Single outstanding request: a command is written to the socket only
\* when no other invocation has written a command and still waits for its
\* response.
C2_SingleOutstanding ==
    [][\A t \in Tasks : sent'[t] > sent[t] =>
          \A u \in Tasks \ {t} : pc[u] # "recv"]_vars

\* C3. The frame send_command takes as the response to a command is the
\* host's reply to that command, never an unsolicited message.
C3_NoUnsolicitedResponse ==
    \A t \in Tasks : got[t] # NoFrame =>
        got[t].kind # "welcome" /\ got[t].cmd = cmd[t]

\* C4. Between invocations connected is true exactly when a handle is stored
\* and no invocation has met a transport failure on it.
C4_ConnectedIffLive ==
    (\A t \in Tasks : pc[t] \in {"idle", "done"}) =>
        (connected <=> (websocket # None /\ websocket \notin detected))

\* C5. An invocation that starts after an invocation failed on the broken
\* connection runs connect() again.
C5_ReconnectAfterFailure ==
    [][\A t \in Tasks :
          (pc[t] = "idle" /\ pc'[t] # "idle" /\ websocket \in detected)
              => conns'[t] = 1]_vars

\* C6. A connect() whose attempts all fail makes exactly max_retries + 1
\* attempts and returns False; with no connection accepted by the host since
\* it began, connected is still false.
C6_ConnectRetryBound ==
    \A t \in Tasks : connRet[t] = "false" =>
        /\ calls[t] = max_retries + 1
        /\ ~accepted[t] => ~connected

\* A connect() has returned False.
C6_Witness ==
    \E t \in Tasks : connRet[t] = "false" /\ pc[t] = "done" /\ ~connected

\* C7. When the k-th attempt of connect() is the first to succeed (the k - 1
\* before it failed), connect() returns True at once: connected is true, the
\* handle stored is the connection just opened, exactly k <= max_retries + 1
\* attempts were made, and no attempt follows.
C7_ConnectStopsAtSuccess ==
    /\ [][\A t \in Tasks : (connRet[t] # "true" /\ connRet'[t] = "true") =>
            /\ connected'
            /\ websocket' # None
            /\ sock[websocket'] = "free" /\ sock'[websocket'] = "open"
            /\ calls'[t] = attempt[t] + 1
            /\ pc'[t] \notin {"connecting", "sleeping"}]_vars
    /\ [](\A t \in Tasks : connRet[t] = "true" =>
            /\ calls[t] = attempt[t] + 1
            /\ calls[t] <= max_retries + 1
            /\ pc[t] \notin {"connecting", "sleeping"})

\* A connect() has succeeded on its third attempt.
C7_Witness ==
    \E t \in Tasks : connRet[t] = "true" /\ calls[t] = 3 /\ connected

\* C8. An invocation that finds connected false runs exactly one connect()
\* before its command is written and, when that connect() succeeds, goes on
\* to send_command in the same call: unless the send meets a closed
\* connection, the command is written and the invocation returns what the
\* exchange gave.  An invocation that finds connected true runs no connect().
C8_ConnectOnDemand ==
    \A t \in Tasks : pc[t] # "idle" =>
        /\ conns[t] = (IF entryConn[t] THEN 0 ELSE 1)
        /\ entryConn[t] => calls[t] = 0 /\ connRet[t] = "none"
        /\ (sent[t] > 0 /\ ~entryConn[t]) => connRet[t] = "true"
        /\ (connRet[t] = "true" /\ sent[t] = 0) =>
              \/ pc[t] = "drain"
              \/ pc[t] = "done" /\ InSeq(ExcClosed.text, result[t].message)

\* An invocation that found connected false has connected, exchanged its
\* command and returned a success envelope.
C8_Witness ==
    \E t \in Tasks :
        /\ pc[t] = "done" /\ ~entryConn[t] /\ connRet[t] = "true"
        /\ sent[t] = 1 /\ got[t].cmd = cmd[t] /\ result[t].status = "success"

\* C9. When connect() exhausts its attempts the invocation returns an error
\* envelope whose message holds the tool's error prefix and the description
\* of the connection failure, and writes no command frame.
C9_UnreachableHost ==
    \A t \in Tasks : connRet[t] = "false" =>
        /\ pc[t] = "done"
        /\ result[t].status = "error"
        /\ InSeq(error_prefix(op[t], params[t]), result[t].message)
        /\ InSeq(ExcConnectFailed.text, result[t].message)
        /\ sent[t] = 0 /\ sentOn[t] = None

\* Both dispatchers have returned after connect() gave up.
C9_Witness ==
    /\ connRet[1] = "false" /\ op[1] = "get_scene_tree"
    /\ connRet[2] = "false" /\ op[2] = "check_connection"

\* C10. Every frame that is in the receive buffer when send_command is
\* called has been discarded by the drain when the command is written.
C10_DrainCompleteness ==
    \A t \in Tasks : sent[t] > 0 => drained[t] >= queued[t]

\* C11. At most one connection is open at any time, whatever the invocations
\* and however they interleave: two invocations that both start while
\* connected is false do not each open one, and connect() does not store a
\* new handle over one that is still open.
C11_OneLiveHandle ==
    Cardinality({s \in Socks : sock[s] = "open"}) <= 1

\* The state in which disconnect() has nothing to do: no handle was ever
\* stored, or the stored one is closed and connected is false.
Disconnected ==
    websocket = None \/ (~connected /\ sock[websocket] = "closed")

\* C12. disconnect() is idempotent.  A call made with an open connection
\* closes it, keeps the handle and, when it returns, connected is false.  A
\* call made when not connected (never connected, or already disconnected)
\* changes no connection state and returns at once without raising.  Every
\* call returns into a state in which a further call changes nothing, so
\* disconnect(); disconnect() leaves what disconnect() leaves.
C12_DisconnectIdempotent ==
    [][\A t \in Tasks :
         /\ (pc[t] = "idle" /\ pc'[t] # "idle" /\ op'[t] = "disconnect") =>
              IF Disconnected
              THEN /\ UNCHANGED <<connected, websocket, sock>>
                   /\ pc'[t] = "done" /\ result'[t] = NoResult
              ELSE /\ websocket' = websocket
                   /\ sock'[websocket] = "closed"
                   /\ \A s \in Socks \ {websocket} : sock'[s] = sock[s]
         /\ (pc[t] # "done" /\ pc'[t] = "done" /\ op'[t] = "disconnect") =>
              /\ Disconnected'
              /\ result'[t] = NoResult]_vars

\* disconnect() has returned from a call made after an earlier disconnect()
\* had closed an established connection.
C12_Witness ==
    \E t \in Tasks :
        /\ pc[t] = "done" /\ op[t] = "disconnect" /\ ~entryConn[t]
        /\ websocket # None /\ sock[websocket] = "closed" /\ ~connected
        /\ websocket \notin detected /\ nClose = 0

\* C13. No retry inside an invocation: it writes at most one command frame
\* and calls recv() for the response at most once, and only after the frame
\* is written; a transport failure on the send or on the receive ends the
\* invocation in the same step, with no frame written again; an invocation
\* that has returned writes and receives nothing more.
C13_NoRetry ==
    /\ [](\A t \in Tasks : sent[t] <= 1 /\ recvs[t] <= sent[t])
    /\ [][\A t \in Tasks :
            /\ (pc[t] # "done" /\ InSeq(ExcClosed.text, result'[t].message)) =>
                  /\ pc'[t] = "done"
                  /\ sent'[t] = sent[t]
            /\ (pc[t] = "done" /\ pc'[t] = "done") =>
                  sent'[t] = sent[t] /\ recvs'[t] = recvs[t]]_vars

\* An invocation has returned an error after the connection was dropped
\* while it waited for the response to the one frame it wrote.
C13_Witness ==
    \E t \in Tasks :
        /\ pc[t] = "done" /\ sent[t] = 1 /\ recvs[t] = 1 /\ got[t] = NoFrame
        /\ sentOn[t] \in detected /\ result[t].status = "error"

\* The response task 1 was given is a reply that parses, and the tool is
\* routed through _execute_command.
Routed == op[1] \in {"get_scene_tree", "create_node"}

\* C14. Error special-case rewrite, for every tool routed through
\* _execute_command and every response whose status is not "success": when
\* the host's error is exactly "No scene is currently open" the message is
\* the open-a-scene-first one and holds no error prefix; for every other
\* error the message is the generic one: the prefix, ": ", the error.
C14_ErrorRewrite ==
    (pc[1] = "done" /\ Routed /\ got[1].kind = "reply" /\ got[1].status # "success") =>
        LET prefix == error_prefix(op[1], params[1])
            m == result[1].message
        IN /\ result[1].status = "error"
           /\ IF got[1].error = NoScene
              THEN /\ m = <<"[x] ", NoScene, ". Please open a scene in Godot editor first, then try again.">>
                   /\ ~InSeq(prefix, m)
              ELSE /\ Len(m) = 4
                   /\ <<m[2], m[3], m[4]>> = <<prefix, ": ", get_error(got[1])>>

\* create_node has been answered with the sentinel, and with an error that
\* differs from it by one character.
C14_Witness ==
    /\ pc[1] = "done" /\ op[1] = "create_node" /\ got[1].status = "error"
    /\ got[1].error \in {NoScene, "No scene is currently open."}
    /\ result[1].status = "error"

\* create_node was called with node_type "InvalidType" and the host replied
\* {status: error, error: "Invalid node type"}.
InvalidTypeScenario ==
    /\ pc[1] = "done" /\ op[1] = "create_node"
    /\ params[1].node_type = "InvalidType"
    /\ got[1].kind = "reply" /\ got[1].status = "error"
    /\ got[1].error = "Invalid node type"

C16_SuccessPath ==
    (pc[1] = "done" /\ Routed /\ got[1].kind = "reply" /\ got[1].status = "success"
        /\ got[1].data.tag \in {"dict", "absent"}) =>
        LET d == IF got[1].data.tag = "absent" THEN JDict(EmptyMap) ELSE got[1].data
        IN /\ result[1].status = "success"
           /\ result[1].message = <<>>
           /\ result[1].data = success_formatter(op[1], params[1], d).val
           /\ op[1] = "get_scene_tree" =>
                /\ result[1].data.tag = "dict"
                /\ DOMAIN result[1].data.map = DOMAIN d.map
                /\ \A k \in DOMAIN d.map : result[1].data.map[k] = d.map[k]
           /\ op[1] = "create_node" =>
                /\ DOMAIN result[1].data.map = {"message", "node_type", "node_name", "node_path"}
                /\ result[1].data.map["node_type"] = JStr(params[1].node_type)

\* get_scene_tree has returned the scene data the host sent.
C16_Witness ==
    /\ pc[1] = "done" /\ op[1] = "get_scene_tree" /\ got[1].status = "success"
    /\ got[1].data = SceneData /\ result[1] = Success(SceneData)

\* C17. send_command called while connected is false or no handle is stored
\* raises ConnectionError("Not connected to Godot") at once: nothing is
\* drained, sent or received, and connected, the handle, the sockets and
\* their buffers are as they were.
C17_SendPrecondition ==
    [][\A t \in Tasks :
         (pc[t] = "idle" /\ pc'[t] # "idle" /\ op'[t] = "send_command"
              /\ (~connected \/ websocket = None)) =>
            /\ pc'[t] = "done"
            /\ result'[t] = Fault(ExcNotConnected)
            /\ drained'[t] = 0 /\ sent'[t] = 0 /\ recvs'[t] = 0
            /\ sentOn'[t] = None /\ got'[t] = NoFrame
            /\ UNCHANGED <<connected, websocket, sock, inbox, hostPending, waiter, detected>>]_vars

\* send_command has raised on a connection that disconnect() had closed
\* with a frame still in its receive buffer.
C17_Witness ==
    \E t \in Tasks :
        /\ pc[t] = "done" /\ op[t] = "send_command"
        /\ result[t] = Fault(ExcNotConnected)
        /\ ~connected /\ websocket # None /\ inbox[websocket] # <<>>

\* C18. When the send or the receive of send_command meets a transport
\* failure, the failure is returned in that same step and connected, the
\* stored handle and the sockets are as they were before it.
C18_TransportFailureFrame ==
    [][\A t \in Tasks :
         (pc[t] # "done" /\ InSeq(ExcClosed.text, result'[t].message)) =>
            /\ pc'[t] = "done"
            /\ UNCHANGED <<connected, websocket, sock>>]_vars

\* An invocation that found connected true has failed on its send, on the
\* connection the host had closed; connected is still true.
C18_Witness ==
    \E t \in Tasks :
        /\ pc[t] = "done" /\ entryConn[t] /\ sent[t] = 0
        /\ InSeq(ExcClosed.text, result[t].message)
        /\ connected /\ websocket \in detected /\ sock[websocket] = "closed"

\* C19. When the reply to a command is not valid JSON the invocation returns
\* an error envelope whose message holds the tool's error prefix and the
\* parser's description and does not hold the text of the reply; connected,
\* the stored handle and the sockets are as they were before the reply was
\* read.
C19_MalformedReply ==
    /\ [](\A t \in Tasks : got[t].kind = "garbage" =>
            /\ pc[t] = "done"
            /\ result[t].status = "error"
            /\ InSeq(error_prefix(op[t], params[t]), result[t].message)
            /\ InSeq(ExcJSON.text, result[t].message)
            /\ ~InSeq(got[t].data.s, result[t].message))
    /\ [][\A t \in Tasks :
            (got[t] = NoFrame /\ got'[t].kind = "garbage") =>
                UNCHANGED <<connected, websocket, sock>>]_vars

\* Both dispatchers have returned after a reply that is not JSON.
C19_Witness ==
    /\ pc[1] = "done" /\ op[1] = "get_scene_tree" /\ got[1].kind = "garbage"
    /\ pc[2] = "done" /\ op[2] = "check_connection" /\ got[2].kind = "garbage"
    /\ got[1].data = JStr(RawText) /\ connected

\* The entry of mapping j under key k, absent when j is no mapping or has
\* no such key; and a default for what is absent.
Field(j, k) ==
    IF j.tag = "dict" /\ k \in DOMAIN j.map THEN j.map[k] ELSE JAbsent

OrDefault(v, d) == IF v.tag = "absent" THEN d ELSE v

\* C20. Health report: on a success reply check_connection returns a success
\* envelope whose data holds the configured host and port, godot_version =
\* data.godot_version.string or "Unknown", active_clients =
\* data.server_status.client_count or 0, server_uptime = data.timestamp or
\* "Unknown", and error_log_size = the length of data.error_log or 0 when no
\* list is there, for every shape of the diagnostic data.
C20_HealthReport ==
    (pc[1] = "done" /\ op[1] = "check_connection" /\ got[1].kind = "reply"
        /\ got[1].status = "success" /\ got[1].data.tag = "dict") =>
        LET d == got[1].data
            log == Field(d, "error_log")
        IN result[1] = Success(JDict(
              [status |-> JStr("Healthy"),
               websocket_host |-> JStr(godot_host),
               websocket_port |-> JInt(godot_port),
               godot_version |-> OrDefault(Field(Field(d, "godot_version"), "string"), JStr("Unknown")),
               active_clients |-> OrDefault(Field(Field(d, "server_status"), "client_count"), JInt(0)),
               server_uptime |-> OrDefault(Field(d, "timestamp"), JStr("Unknown")),
               error_log_size |-> IF log.tag = "list" THEN JInt(log.n) ELSE JInt(0)]))

\* C21. Health failure distinction: the error check_connection returns says
\* "Connection check failed" only when the connection could not be
\* established (connect() returned False and ensure_godot_connection raised);
\* whenever the host was reached and the exchange itself failed it says
\* "Connected but communication failed".
C21_HealthFailureDistinction ==
    \A t \in Tasks :
        (pc[t] = "done" /\ op[t] = "check_connection" /\ result[t].status = "error") =>
            IF connRet[t] = "false"
            THEN InSeq("Connection check failed", result[t].message)
            ELSE InSeq("Connected but communication failed", result[t].message)


\* C22. Reconnection happens in ensure_godot_connection alone: connect() is
\* entered only as an invocation starts, and its websockets.connect calls are
\* all made before send_command runs, so neither send_command nor the drain
\* connects; and a command is written only by an invocation whose
\* ensure_godot_connection found connected true or got True from connect().
C22_ReconnectOnlyInEnsure ==
    [][\A t \in Tasks :
          /\ conns'[t] > conns[t] => pc[t] = "idle"
          /\ (pc'[t] = "connecting" /\ pc[t] # "connecting") =>
                pc[t] \in {"idle", "sleeping"}
          /\ calls'[t] > calls[t] =>
                pc[t] = "connecting" /\ drains[t] = 0 /\ sent[t] = 0
          /\ sent'[t] > sent[t] =>
                entryConn'[t] \/ connRet'[t] = "true"]_vars

\* An invocation that found connected true has returned a transport failure
\* without a single websockets.connect call, while the invocation that had
\* connected has written its command.
C22_Witness ==
    \E t, u \in Tasks :
        /\ pc[t] = "done" /\ entryConn[t] /\ calls[t] = 0 /\ conns[t] = 0
        /\ InSeq(ExcClosed.text, result[t].message)
        /\ connRet[u] = "true" /\ sent[u] = 1

\* C23. No exchange timeout: an invocation that has written its command
\* returns only after recv() gave it a frame or the transport failed, and it
\* leaves the wait for the response only on a frame or on the close of the
\* connection: while the host stays silent and the socket open it does not
\* complete.
C23_NoExchangeTimeout ==
    /\ [][\A t \in Tasks : (pc[t] = "recv" /\ pc'[t] # "recv") =>
            \/ inbox[MySock(t)] # <<>>
            \/ sock[MySock(t)] = "closed"]_vars
    /\ [](\A t \in Tasks : (pc[t] = "done" /\ sent[t] > 0) =>
            \/ got[t] # NoFrame
            \/ InSeq(ExcClosed.text, result[t].message))


\* The strings json.dumps writes for the returned value: the parts of an
\* error message, and the keys and string values of the data.
Strings(r) ==
    {r.message[i] : i \in 1..Len(r.message)}
        \cup (IF r.data.tag = "dict"
              THEN DOMAIN r.data.map \cup {r.data.map[k].s : k \in DOMAIN r.data.map}
              ELSE {})

\* phrase in text, for the phrases asked about and the texts the tools build.
Contains(text, phrase) ==
    \/ text = phrase
    \/ /\ phrase = "validation successful"
       /\ text \in {"Script validation successful (39 characters)",
                    "Script validation successful (19 characters)"}
    \/ /\ phrase = "Successfully updated"
       /\ text \in {"Successfully updated script content on Player (39 characters)",
                    "Successfully updated script content on Player (19 characters)"}

\* The returned text holds the phrase.
Says(r, phrase) == \E x \in Strings(r) : Contains(x, phrase)

\* C24. validate_script: when the host answers success with data.valid
\* false the returned text reports "validation failed"; with data.valid true
\* it reports "validation successful".
C24_ValidationText ==
    (/\ pc[1] = "done" /\ op[1] = "validate_script"
     /\ got[1].status = "success" /\ got[1].data \in ValidationData) =>
        IF got[1].data.map["valid"] = JBool(TRUE)
        THEN Says(result[1], "validation successful")
        ELSE Says(result[1], "validation failed")

\* C25. A success reply without a data field is handled as one whose data is
\* the empty mapping: the invocation returns a success envelope holding what
\* the tool's formatter makes of the empty mapping (for set_script_content the
\* message with "Successfully updated"), never an error envelope.
C25_MissingDataIsEmpty ==
    (/\ pc[1] = "done" /\ got[1].kind = "reply"
     /\ got[1].status = "success" /\ got[1].data = JAbsent) =>
        /\ result[1].status = "success"
        /\ result[1].data.tag = "dict"
        /\ result[1].data =
              IF op[1] = "check_connection"
              THEN status_report(JDict(EmptyMap)).val
              ELSE success_formatter(op[1], params[1], JDict(EmptyMap)).val
        /\ op[1] = "set_script_content" => Says(result[1], "Successfully updated")

\* set_script_content has returned after a success reply without data.
C25_Witness ==
    /\ pc[1] = "done" /\ op[1] = "set_script_content"
    /\ got[1].status = "success" /\ got[1].data = JAbsent
    /\ result[1].status = "success"
    /\ "message" \in DOMAIN result[1].data.map


\* C26. add_property_track chooses the track from the type of initial_value
\* alone: an int or float always gives a VALUE track (type 4) on the full
\* property_path; a bool gives a METHOD track (type 5) on the node part of
\* property_path; a list gives a METHOD track (type 5) on the node part.
C26_TrackByValueType ==
    pc[1] = "built" =>
        LET v == params[1].initial_value
            q == params[1].property_path
        IN /\ v.tag \in {"int", "float"} =>
                 command[1] = [track_type |-> 4, track_path |-> q]
           /\ v.tag \in {"bool", "list"} =>
                 command[1] = [track_type |-> 5, track_path |-> <<Head(q)>>]

\* C27. Retry delays: connect() sleeps exactly once between two consecutive
\* attempts and never after the final one.  While connect() runs, as many
\* delays as failed attempts have been made; a connect() that gave up after
\* max_retries + 1 attempts made max_retries delays, and one that succeeded
\* on its k-th attempt made k - 1.
C27_RetryDelays ==
    /\ [][\A t \in Tasks : delays'[t] > delays[t] =>
            /\ delays'[t] = delays[t] + 1
            /\ calls'[t] = calls[t] + 1
            /\ calls'[t] <= max_retries
            /\ pc'[t] = "sleeping"]_vars
    /\ [](\A t \in Tasks :
            /\ pc[t] \in {"connecting", "sleeping"} => delays[t] = calls[t]
            /\ connRet[t] = "false" =>
                  calls[t] = max_retries + 1 /\ delays[t] = max_retries
            /\ connRet[t] = "true" => delays[t] = calls[t] - 1)

\* One connect() has given up after max_retries delays while another has
\* succeeded on its third attempt, after two.
C27_Witness ==
    \E t, u \in Tasks :
        /\ connRet[t] = "false" /\ delays[t] = max_retries
        /\ connRet[u] = "true" /\ calls[u] = 3 /\ delays[u] = 2

\* C28. A failed attempt of connect(), a timeout or an error alike, counts as
\* one attempt and never aborts the loop: after it connect() is still running
\* unless it was attempt max_retries + 1, after which connect() returns
\* False; so connect() ends only with a success or after max_retries + 1
\* attempts.
C28_FailureNeverAborts ==
    /\ [][\A t \in Tasks :
            (calls'[t] > calls[t] /\ lastFail'[t] \in {"timeout", "error"}) =>
                /\ calls'[t] = attempt[t] + 1
                /\ IF calls'[t] < max_retries + 1
                   THEN pc'[t] \in {"sleeping", "connecting"} /\ connRet'[t] = "none"
                   ELSE connRet'[t] = "false"]_vars
    /\ [](\A t \in Tasks :
            (conns[t] = 1 /\ pc[t] \notin {"connecting", "sleeping"}) =>
                \/ connRet[t] = "true"
                \/ connRet[t] = "false" /\ calls[t] = max_retries + 1)

\* A connect() goes on after a timeout, and another after an error that
\* followed earlier failures.
C28_Witness ==
    \E t, u \in Tasks :
        /\ pc[t] = "sleeping" /\ lastFail[t] = "timeout" /\ calls[t] = 2
        /\ pc[u] = "sleeping" /\ lastFail[u] = "error" /\ calls[u] = 3


\* C29. The drain is shape-independent: a pending message of any shape is
\* discarded without ending the drain.  A drain that has just discarded a
\* message returns only when its next recv() fails, the buffer empty and the
\* connection closed; otherwise it goes on to the next message or waits for
\* the timeout.
C29_DrainShapeIndependent ==
    [][\A t \in Tasks :
          (drained'[t] > drained[t] /\ drains'[t] > drains[t]) =>
              /\ inbox'[websocket] = <<>>
              /\ sock[websocket] = "closed"]_vars

\* C30. The drain precedes every send: a command frame is written only in
\* the step in which a run of _drain_welcome_messages of the same call has
\* just returned, with no suspension between the two; this holds for the
\* first command after connecting and for every later one.
C30_DrainBeforeSend ==
    /\ [][\A t \in Tasks : sent'[t] > sent[t] =>
            /\ sent'[t] = sent[t] + 1
            /\ drains'[t] = drains[t] + 1]_vars
    /\ [](\A t \in Tasks : sent[t] <= drains[t] /\ drains[t] <= 1)

\* The invocation that connected has exchanged its command after one drain,
\* and a later invocation on the same connection has written its own after
\* a drain that ran to its timeout.
C30_Witness ==
    \E t, u \in Tasks :
        /\ pc[t] = "done" /\ connRet[t] = "true" /\ sent[t] = 1 /\ drains[t] = 1
        /\ got[t].cmd = cmd[t]
        /\ pc[u] = "recv" /\ entryConn[u] /\ sent[u] = 1 /\ drains[u] = 1

\* C31. A transport error raised while draining is swallowed as "nothing
\* more to drain": when the drain's recv() fails on a closed connection with
\* nothing buffered, whether the drain was waiting in it or had just called
\* it, the drain returns and the same step goes on to websocket.send, so
\* that whatever the invocation then returns comes from the send or from
\* what follows it.
C31_DrainErrorSwallowed ==
    [][\A t \in Tasks :
          (\/ /\ pc[t] = "drain" /\ pc'[t] # "drain"
              /\ inbox[MySock(t)] = <<>> /\ sock[MySock(t)] = "closed"
           \/ /\ pc[t] = "idle" /\ pc'[t] # "idle"
              /\ connected /\ websocket # None
              /\ waiter[websocket] = None
              /\ inbox[websocket] = <<>> /\ sock[websocket] = "closed") =>
              /\ drains'[t] = drains[t] + 1
              /\ sends'[t] = sends[t] + 1]_vars

\* An invocation running alone met a closed connection in its drain, went on
\* to the send and returned the failure of the send.
C31_Witness ==
    \E t \in Tasks :
        /\ pc[t] = "done" /\ entryConn[t]
        /\ \A u \in Tasks \ {t} : pc[u] = "idle"
        /\ drains[t] = 1 /\ sends[t] = 1 /\ sent[t] = 0
        /\ InSeq(ExcClosed.text, result[t].message)

\* disconnect() has closed the stored connection and returned, and nothing
\* is in progress; the host has closed no connection itself.
AfterDisconnect ==
    /\ websocket # None /\ sock[websocket] = "closed"
    /\ nClose = 0
    /\ Quiescent

\* C32. Reconnect after explicit disconnect: the operation invoked after
\* disconnect() has closed an established connection finds connected false
\* and starts a fresh connect() before anything is sent; a connect() that
\* succeeds stores a handle just opened, different from the one stored
\* before; and a command is written on the handle stored then, which is open.
C32_ReconnectAfterDisconnect ==
    [][\A t \in Tasks :
          /\ (pc[t] = "idle" /\ pc'[t] # "idle" /\ op'[t] \in Ops /\ AfterDisconnect) =>
                /\ ~entryConn'[t]
                /\ conns'[t] = 1 /\ pc'[t] = "connecting"
                /\ sends'[t] = 0
          /\ (connRet[t] # "true" /\ connRet'[t] = "true") =>
                /\ websocket' # websocket
                /\ sock[websocket'] = "free" /\ sock'[websocket'] = "open"
          /\ sent'[t] > sent[t] =>
                /\ sentOn'[t] = websocket'
                /\ sock'[sentOn'[t]] = "open"]_vars

\* After disconnect() closed the first connection, the next operation has
\* connected again and exchanged its command on the second.
C32_Witness ==
    \E t, u \in Tasks :
        /\ pc[u] = "done" /\ op[u] = "disconnect" /\ entryConn[u]
        /\ pc[t] = "done" /\ op[t] \in Ops /\ ~entryConn[t] /\ connRet[t] = "true"
        /\ sock[1] = "closed" /\ nClose = 0
        /\ sentOn[t] = 2 /\ got[t].cmd = cmd[t] /\ result[t].status = "success"

C34_FlagWriters ==
    [][/\ (~connected /\ connected') =>
            \E t \in Tasks :
                /\ pc[t] = "connecting" /\ calls'[t] = calls[t] + 1
                /\ connRet'[t] = "true"
       /\ (connected /\ ~connected') =>
            \E t \in Tasks :
                /\ op'[t] = "disconnect"
                /\ pc[t] \in {"idle", "closing"} /\ pc'[t] = "done"]_vars

\* connect() had set the flag, an invocation failed without touching it, and
\* disconnect() has cleared it.
C34_Witness ==
    \E t, u \in Tasks :
        /\ pc[t] = "done" /\ connRet[t] = "true" /\ result[t].status = "error"
        /\ pc[u] = "done" /\ op[u] = "disconnect" /\ entryConn[u]
        /\ ~connected

\* C35. No command frame is written while connected is false: a frame is
\* written in a state in which connected is true and on the handle stored
\* then, and websocket.send is called only by a send_command that found
\* connected true and a handle when it was entered, at the start of the
\* invocation or right after its connect() succeeded.
C35_NoSendUnconnected ==
    /\ [][\A t \in Tasks : sent'[t] > sent[t] =>
            /\ connected /\ connected'
            /\ websocket' # None /\ sentOn'[t] = websocket']_vars
    /\ [][\A t \in Tasks : (pc[t] = "idle" /\ sends'[t] > 0) =>
            connected /\ websocket # None]_vars
    /\ [](\A t \in Tasks : sends[t] > 0 =>
            entryConn[t] \/ connRet[t] = "true")

\* A direct call of send_command on the connection an invocation had opened
\* has passed the precondition and written its frame.
C35_Witness ==
    \E t, u \in Tasks :
        /\ op[t] = "send_command" /\ entryConn[t] /\ sent[t] = 1 /\ connected
        /\ op[u] \in Ops /\ connRet[u] = "true" /\ sent[u] = 1

\* C36. A response whose status is not exactly "success" ("error", another
\* value, or no status at all) becomes an error envelope, never a success
\* envelope; its message carries the response's error text, and
\* "Unknown error" when the response has no error field.
C36_NonSuccessIsError ==
    (pc[1] = "done" /\ got[1].kind = "reply" /\ got[1].status # "success") =>
        /\ result[1].status = "error"
        /\ IF got[1].error = "absent"
           THEN InSeq("Unknown error", result[1].message)
           ELSE InSeq(got[1].error, result[1].message)

\* A response with neither a status nor an error field, and one whose status
\* is a value other than "success" and "error", have been dispatched.
C36_Witness ==
    /\ pc[1] = "done" /\ got[1].kind = "reply"
    /\ got[1].status \in {"absent", "failed"} /\ got[1].error = "absent"
    /\ got[1].data.tag = "dict"
    /\ result[1].status = "error"
    /\ InSeq("Unknown error", result[1].message)

====
